---- MODULE Spec2Model ----
(***************************************************************************)
(* The load client (bot.py: Bot) run against the service, and the views   *)
(* of the service's posts app (posts/views.py).                            *)
(*                                                                         *)
(* Spec          : one run of Bot.start, one HTTP exchange per step.       *)
(* SpecAnalytics : stored likes and analytics queries on the service.      *)
(* SpecService   : posts and likes created, likes deleted on the service.  *)
(* SpecCalls     : remove_like and get_likes_analytics called for a        *)
(*                 logged-in user, one HTTP exchange per step.             *)
(***************************************************************************)
EXTENDS Integers, Sequences, FiniteSets, TLC

\* ------------------------------------------------------------- bounds
NumberOfUsers == 1        \* bot.ini NumberOfUsers
MaxPostsPerUser == 2      \* bot.ini MaxPostsPerUser
MaxLikesPerUser == 2      \* bot.ini MaxLikesPerUser
MaxExpiries == 2          \* access tokens the service lets expire in a run
MaxDay == 2               \* calendar days the service's clock runs through
TicksPerDay == 2          \* instants of a day; the first one is midnight
MaxRows == 2              \* rows of the Like table
MaxPosts == 1             \* posts made through the API

\* ---------------------------------------------------------- JSON values
\* an answer without a Content-Type header: headers.get gives None
NoType == "None"
JSON == "application/json"
HTML == "text/html"

NoId == 0                 \* UserData.id = None
EmptyToken == 0           \* UserData.access = '' / UserData.refresh = ''

EmptyDict == [k \in {} |-> ""]

\* a response: status code, content-type header, body decoded by json.loads
Response(status, ctype, data) ==
    [status |-> status, ctype |-> ctype, data |-> data]

\* json.loads result: a dict (isdict) with its fields
Dict(fields) == [isdict |-> TRUE, fields |-> fields]

\* json.loads result: a list with its items
List(items) == [isdict |-> FALSE, fields |-> items]

IsDict(data) == data.isdict

\* dict.get(key) = value, for a key that may be missing
Get(data, key, value) ==
    key \in DOMAIN data.fields /\ data.fields[key] = value

\* ------------------------------------------------------ Bot.UserData
UserData(username, password) ==
    [username |-> username, password |-> password, id |-> NoId,
     access |-> EmptyToken, refresh |-> EmptyToken]

\* UserData.update: setattr for every key of kwargs
update(user, kwargs) ==
    [k \in (DOMAIN user) \cup (DOMAIN kwargs) |->
        IF k \in DOMAIN kwargs THEN kwargs[k] ELSE user[k]]

\* dataclasses.asdict(user): the declared fields only
asdict(user) ==
    [k \in {"username", "password", "id", "access", "refresh"} |-> user[k]]

\* UserData.get_auth_header: the bearer token put in the header
get_auth_header(user) == user.access

\* ------------------------------------------------------------ service
UsernameTaken == "A user with that username already exists."
NoAccount == "No active account found with the given credentials"
BadHeader == "Authorization header must contain two space-delimited values"
InvalidToken == "Token is invalid or expired"
NotFound == "Not found."

\* POST signup: usernames are unique; the new account's id is the next key
SignupResponse(accts, username, password) ==
    IF \E a \in accts : a.username = username
    THEN Response(400, JSON, Dict([username |-> UsernameTaken]))
    ELSE Response(201, JSON,
                  Dict([email |-> "", username |-> username,
                        id |-> Cardinality(accts) + 1]))

\* POST login: a refresh and an access token for a known account
LoginResponse(accts, creds, tok) ==
    IF \E a \in accts : a.username = creds.username
                          /\ a.password = creds.password
    THEN Response(200, JSON, Dict([refresh |-> tok, access |-> tok + 1]))
    ELSE Response(401, JSON, Dict([detail |-> NoAccount]))

\* POST refresh: a new access token only, unless the refresh token is invalid
RefreshResponse(exp, refresh, tok) ==
    IF refresh \in exp
    THEN Response(401, JSON,
                  Dict([detail |-> InvalidToken, code |-> "token_not_valid"]))
    ELSE Response(200, JSON, Dict([access |-> tok]))

\* permission_classes = [IsAuthenticated]: the endpoint answers only a
\* bearer token that is present and valid. When a token expires is the
\* clock's choice (the expire flag of the actions); once expired, a token
\* stays expired
BearerResponse(exp, token, ok) ==
    IF token = EmptyToken
    THEN Response(401, JSON,
                  Dict([detail |-> BadHeader,
                        code |-> "bad_authorization_header"]))
    ELSE IF token \in exp
    THEN Response(401, JSON,
                  Dict([detail |-> InvalidToken, code |-> "token_not_valid"]))
    ELSE ok

\* POST posts/: the created Post with its primary key
PostCreated(id) == Response(201, JSON, Dict([id |-> id, content |-> "lipsum"]))

\* POST likes/: the created Like
LikeCreated(post) == Response(201, JSON, Dict([post |-> post]))

\* an answer that is not JSON (a server error page)
ErrorPage == Response(500, HTML, Dict(EmptyDict))

\* ------------------------------------------- posts app: likes analytics
Authors == {1, 2}         \* users of the service
Entries == {1, 2}         \* posts of the service

\* a DateTimeField value is an instant; its date, and a date's midnight
Instants == TicksPerDay .. (TicksPerDay * (MaxDay + 1) - 1)
Days == 1..MaxDay
DateOf(instant) == instant \div TicksPerDay
Midnight(day) == day * TicksPerDay

\* the value of a query parameter: missing, empty, not a %Y-%m-%d date, or
\* the text of a date
NoDate == 0
QueryValues ==
    {[text |-> t, day |-> NoDate] : t \in {"missing", "empty", "invalid"}}
    \cup {[text |-> "date", day |-> d] : d \in Days}

\* get_date_param: the parsed date; None for a missing or unparsable value,
\* the empty string itself for an empty one (both falsy)
get_date_param(value) ==
    IF value.text = "date" THEN value.day ELSE NoDate

\* q &= Q(created_at__gte=date_from); q &= Q(created_at__lte=date_to)
Q(date_from, date_to) ==
    (IF date_from # NoDate THEN {<<"gte", date_from>>} ELSE {})
    \cup (IF date_to # NoDate THEN {<<"lte", date_to>>} ELSE {})

\* a lookup of the DateTimeField against a date: the date stands for its
\* midnight
Lookup(created_at, cond) ==
    IF cond[1] = "gte" THEN created_at >= Midnight(cond[2])
    ELSE created_at <= Midnight(cond[2])

\* Like.objects.filter(q)
Filter(rows, q) == {r \in rows : \A cond \in q : Lookup(r.created_at, cond)}

\* Meta.ordering = ['created_at'] left in the query: created_at joins the
\* GROUP BY columns
GroupByCreatedAt(row) == <<DateOf(row.created_at), row.created_at>>

\* .values('created_at__date') with the explicit order_by: the GROUP BY
\* columns of a row
GroupKey(row) == <<DateOf(row.created_at)>>

\* .annotate(count=Count('created_at__date')): one entry per group
Annotate(rows) ==
    { [created_at__date |-> key[1],
       count |-> Cardinality({r \in rows : GroupKey(r) = key})] :
      key \in {GroupKey(r) : r \in rows} }

\* .order_by('created_at__date'): ascending
RECURSIVE OrderBy(_)
OrderBy(entries) ==
    IF entries = {} THEN <<>>
    ELSE LET first == CHOOSE e \in entries :
                        \A o \in entries :
                            e.created_at__date <= o.created_at__date
         IN <<first>> \o OrderBy(entries \ {first})

\* LikesPerDayList.get_queryset, lines 99-118
get_queryset(rows, params) ==
    LET date_from == get_date_param(params.date_from)
        date_to == get_date_param(params.date_to)
        q == Q(date_from, date_to)
    IN IF Cardinality(q) = 0
       THEN [status |-> 400, rows |-> <<>>]
       ELSE [status |-> 200, rows |-> OrderBy(Annotate(Filter(rows, q)))]

\* the value of 'user' in a request body: absent, or the key of a user
BodyUsers == {NoId} \cup Authors

\* PostSerializer.user / LikeSerializer.user: a writable
\* PrimaryKeyRelatedField whose default is the requester; perform_create is
\* a hook of views, on a serializer nothing calls it
UserField(requester, body) == IF body = NoId THEN requester ELSE body

\* the queryset of all likes, whoever made them
AllLikes(rows, user) == rows

\* LikeCreateDestroyAPIView.get_queryset: the likes of the requester
LikeQueryset(rows, user) == {r \in rows : r.user = user}

\* DestroyModelMixin.destroy with lookup_field = 'post': the one object of
\* the queryset with that post is deleted; none is 404, several an
\* uncaught MultipleObjectsReturned
destroy(rows, user, post) ==
    LET found == {r \in LikeQueryset(rows, user) : r.post = post}
    IN IF found = {} THEN [status |-> 404, rows |-> rows]
       ELSE IF Cardinality(found) > 1 THEN [status |-> 500, rows |-> rows]
       ELSE [status |-> 204, rows |-> rows \ found]

\* DELETE likes/<post>: 204 No Content has no body and no Content-Type
\* header; Http404 is answered in JSON, an uncaught exception by an error page
DestroyResponse(result) ==
    IF result.status = 204 THEN Response(204, NoType, Dict(EmptyDict))
    ELSE IF result.status = 404
    THEN Response(404, JSON, Dict([detail |-> NotFound]))
    ELSE Response(500, HTML, Dict(EmptyDict))

\* IncorrectParametersException.default_detail
IncorrectParameters == "Incorrect parameters"

\* GET analytics/: the list of the queryset, or the exception's answer
AnalyticsResponse(rows, params) ==
    LET result == get_queryset(rows, params)
    IN IF result.status = 400
       THEN Response(400, JSON, Dict([detail |-> IncorrectParameters]))
       ELSE Response(200, JSON, List(result.rows))

\* no check of the content type
AnyContent(response) == TRUE

\* ------------------------------------------------------------- client
\* make_request: content_type != 'application/json' raises
JsonContent(response) == response.ctype = JSON

\* data.get('code') == 'token_not_valid' on a dict
TokenNotValid(data) == IsDict(data) /\ Get(data, "code", "token_not_valid")

\* a refresh after every token-invalid answer, the retried one included
RefreshAlways(ph, data) == TokenNotValid(data)

\* _request_wrapper: only the first make_request is followed by a refresh
NeedsRefresh(ph, data) == ph = "first" /\ TokenNotValid(data)

\* make_random_string(prefix, n): the prefix and a drawn string; the draw is
\* named by its number, an old number being a string drawn before
make_random_string(prefix, draw) == prefix \o ToString(draw)

\* make_request builds the header from the credential as it is at the call
HeaderUser(ph, user, entered) == user

\* the retried call's result is dropped and the first call's data returned
FirstValue(log, data) == IF log = <<>> THEN data ELSE log[1].response.data

\* data = make_request() ... return data: the last call's data is returned
ReturnValue(log, data) == data

\* the list is replaced by the new id instead of being extended
OnlyLastId(ids, id) == <<id>>

\* self._post_ids.append(data['id'])
AppendId(ids, id) == Append(ids, id)

\* get_likes_analytics lines 252-255: `if date_from:` leaves a None or an
\* empty argument out of params
Param(value) ==
    IF value.text \in {"missing", "empty"}
    THEN [text |-> "missing", day |-> NoDate]
    ELSE value

\* the methods of Bot that call _request_wrapper
Wrapped == {"make_post", "add_like", "remove_like", "get_likes_analytics"}

\* max_likes = min(self.max_likes_per_user, len(self._post_ids))
MaxLikes(n) == IF MaxLikesPerUser < n THEN MaxLikesPerUser ELSE n

\* random.choices(population, k=k): positions may repeat
Choices(population, k) ==
    { [i \in 1..k |-> population[f[i]]] :
        f \in [1..k -> 1..Len(population)] }

\* random.sample(population, k): k elements at pairwise distinct positions
Samples(population, k) ==
    { [i \in 1..k |-> population[f[i]]] :
        f \in { g \in [1..k -> 1..Len(population)] :
                   \A i, j \in 1..k : i # j => g[i] # g[j] } }

VARIABLES
    pc,           \* position of Bot.start
    phase,        \* position inside _request_wrapper
    users,        \* Bot.users
    post_ids,     \* Bot._post_ids
    cur,          \* index in users of the loop variable `user`
    postsLeft,    \* iterations left of the inner 'Making posts' loop
    max_likes,    \* the local max_likes of Bot.start
    posts,        \* rest of the random.sample being liked
    error,        \* the exception that ended the run, "" if none
    accounts,     \* service: registered accounts
    nextToken,    \* service: next token to issue
    nextPostId,   \* service: next Post primary key
    expired,      \* service: access tokens that have expired
    rejected,     \* service: refresh tokens that have expired
    calls,        \* HTTP calls of the current logical request
    before,       \* the credential when _request_wrapper was entered
    outcome,      \* how the last _request_wrapper call ended
    signup,       \* history: the last make_user call and its answer
    drawn,        \* history: the sum of the per-user random.randint draws
    likesIssued,  \* history: post ids add_like was called with for users[cur]
    likes,        \* service: the rows of the Like table
    postTable,    \* service: the rows of the Post table made through the API
    deleted,      \* history: the Like table before the last DELETE, while
                  \* that DELETE or the POST after it is the request answered
    request,      \* service: the request being answered by the posts app
    answer        \* service: its answer

vars == <<pc, phase, users, post_ids, cur, postsLeft, max_likes, posts, error,
          accounts, nextToken, nextPostId, expired, rejected, calls, before,
          outcome, signup, drawn, likesIssued, likes, postTable, deleted,
          request, answer>>

clientVars == <<pc, phase, users, post_ids, cur, postsLeft, max_likes, posts,
                error, accounts, nextToken, nextPostId, expired, rejected,
                calls, before, outcome, signup, drawn, likesIssued>>

tableVars == <<likes, postTable, deleted, request, answer>>

\* an account registered on the service before the run
PriorAccount ==
    [username |-> make_random_string("u", 1),
     password |-> make_random_string("p", 0), id |-> 1]

\* no request has reached the posts app yet
NoRequest == [view |-> "none"]
NoAnswer == [status |-> 0, rows |-> <<>>]
NoDelete == [stage |-> "none", rows |-> {}]

NoData == Dict(EmptyDict)
NoOutcome == [status |-> "none", data |-> NoData, user |-> UserData("", "")]

Init ==
    /\ pc = "make_user"
    /\ phase = "first"
    /\ users = <<>>
    /\ post_ids = <<>>
    /\ cur = 0
    /\ postsLeft = 0
    /\ max_likes = 0
    /\ posts = <<>>
    /\ error = ""
    /\ accounts \in SUBSET {PriorAccount}
    /\ nextToken = 1
    /\ nextPostId = 1
    /\ expired = {}
    /\ rejected = {}
    /\ calls = <<>>
    /\ before = UserData("", "")
    /\ outcome = NoOutcome
    /\ signup = [username |-> "", password |-> "", status |-> 0]
    /\ drawn = 0
    /\ likesIssued = <<>>
    /\ likes = {}
    /\ postTable = {}
    /\ deleted = NoDelete
    /\ request = NoRequest
    /\ answer = NoAnswer


\* an exception propagates out of Bot.start
Abort(e) == pc' = "aborted" /\ error' = e

\* make_user, lines 159-168: signup, update from the answer, append
MakeUser ==
    /\ pc = "make_user"
    /\ \E draw \in 1..(Cardinality(accounts) + 1), fault \in BOOLEAN :
        LET username == make_random_string("u", draw)
            password == make_random_string("p", draw)
            user == UserData(username, password)
            response == IF fault THEN ErrorPage
                        ELSE SignupResponse(accounts, username, password)
        IN /\ accounts' = IF response.status = 201
                          THEN accounts \cup {[username |-> username,
                                               password |-> password,
                                               id |-> response.data.fields.id]}
                          ELSE accounts
           /\ signup' = [username |-> username, password |-> password,
                          status |-> response.status]
           /\ IF JsonContent(response)
              THEN /\ users' = Append(users, update(user, response.data.fields))
                   /\ cur' = Len(users) + 1
                   /\ pc' = "authorize_user"
                   /\ error' = error
              ELSE /\ Abort("JSONDecodeError")
                   /\ UNCHANGED <<users, cur>>
    /\ UNCHANGED <<phase, post_ids, postsLeft, max_likes, posts, nextToken,
                   nextPostId, expired, rejected, calls, before, outcome,
                   drawn, likesIssued>>
    /\ UNCHANGED tableVars

\* authorize_user, lines 181-185, then the draw of line 273
AuthorizeUser ==
    /\ pc = "authorize_user"
    /\ \E fault \in BOOLEAN, n \in 1..MaxPostsPerUser :
        LET user == users[cur]
            response == IF fault THEN ErrorPage
                        ELSE LoginResponse(accounts, asdict(user), nextToken)
        IN /\ nextToken' = IF response.status = 200
                           THEN nextToken + 2 ELSE nextToken
           /\ IF JsonContent(response)
              THEN /\ users' = [users EXCEPT
                                  ![cur] = update(user, response.data.fields)]
                   /\ postsLeft' = n
                   /\ drawn' = drawn + n
                   /\ pc' = "make_post"
                   /\ error' = error
              ELSE /\ Abort("JSONDecodeError")
                   /\ n = 1
                   /\ UNCHANGED <<users, postsLeft, drawn>>
    /\ UNCHANGED <<phase, post_ids, cur, max_likes, posts, accounts,
                   nextPostId, expired, rejected, calls, before, outcome,
                   signup, likesIssued>>
    /\ UNCHANGED tableVars

\* how _request_wrapper ended: returned data, or raised
Returned(data, user) == [status |-> "returned", data |-> data, user |-> user]
Raised(user) == [status |-> "raised", data |-> NoData, user |-> user]

\* Bot.start lines 279-283: the next user of the 'Liking posts' loop
NextLiker ==
    IF cur < Len(users)
    THEN pc' = "sample" /\ cur' = cur + 1
    ELSE pc' = "done" /\ cur' = cur

\* make_post line 211, then the loops of Bot.start, lines 270-279
AfterMakePost(data) ==
    IF "id" \notin DOMAIN data.fields
    THEN /\ Abort("KeyError")
         /\ UNCHANGED <<post_ids, cur, postsLeft, max_likes>>
    ELSE /\ post_ids' = AppendId(post_ids, data.fields["id"])
         /\ error' = error
         /\ IF postsLeft > 1
            THEN /\ pc' = "make_post"
                 /\ postsLeft' = postsLeft - 1
                 /\ UNCHANGED <<cur, max_likes>>
            ELSE /\ postsLeft' = 0
                 /\ IF Len(users) < NumberOfUsers
                    THEN /\ pc' = "make_user"
                         /\ UNCHANGED <<cur, max_likes>>
                    ELSE /\ pc' = "sample"
                         /\ cur' = 1
                         /\ max_likes' = MaxLikes(Len(post_ids'))

\* add_like returns, then the loops of Bot.start, lines 280-283
AfterAddLike ==
    /\ posts' = Tail(posts)
    /\ error' = error
    /\ IF Tail(posts) # <<>>
       THEN pc' = "add_like" /\ cur' = cur
       ELSE NextLiker
    /\ UNCHANGED <<post_ids, postsLeft, max_likes>>

\* a method called on its own returns to its caller
AfterCall ==
    /\ pc' = "idle"
    /\ UNCHANGED <<post_ids, cur, postsLeft, max_likes, posts, error>>

\* make_request (lines 88-95) as the first or the retried call of
\* _request_wrapper (lines 97-102), up to the caller's use of the result
Send(ph) ==
    /\ \E fault \in BOOLEAN, expire \in BOOLEAN :
        LET user == users[cur]
            token == get_auth_header(HeaderUser(ph, user, before))
            exp == IF expire THEN expired \cup {token} ELSE expired
            served == ~fault /\ token # EmptyToken /\ token \notin exp
            destroyed == destroy(likes, user.id, request.post)
            ok == IF pc = "make_post" THEN PostCreated(nextPostId)
                  ELSE IF pc = "add_like" THEN LikeCreated(Head(posts))
                  ELSE IF pc = "remove_like" THEN DestroyResponse(destroyed)
                  ELSE AnalyticsResponse(likes, request.params)
            response == IF fault THEN ErrorPage
                        ELSE BearerResponse(exp, token, ok)
            data == ReturnValue(IF ph = "first" THEN <<>> ELSE calls,
                                response.data)
        IN /\ expire => /\ ~fault
                        /\ token # EmptyToken
                        /\ token \notin expired
                        /\ Cardinality(expired) < MaxExpiries
           /\ expired' = exp
           /\ nextPostId' = IF pc = "make_post" /\ response.status = 201
                            THEN nextPostId + 1 ELSE nextPostId
           /\ calls' = Append(IF ph = "first" THEN <<>> ELSE calls,
                              [op |-> "request", access |-> token,
                               response |-> response])
           /\ before' = IF ph = "first" THEN user ELSE before
           /\ likesIssued' = IF ph = "first" /\ pc = "add_like"
                             THEN Append(likesIssued, Head(posts))
                             ELSE likesIssued
           /\ IF ~JsonContent(response)
              THEN /\ Abort("Exception")
                   /\ outcome' = Raised(user)
                   /\ phase' = "first"
                   /\ UNCHANGED <<post_ids, cur, postsLeft, max_likes, posts>>
              ELSE IF NeedsRefresh(ph, data)
              THEN /\ phase' = "refresh"
                   /\ outcome' = NoOutcome
                   /\ UNCHANGED <<pc, error, post_ids, cur, postsLeft,
                                  max_likes, posts>>
              ELSE /\ phase' = "first"
                   /\ outcome' = Returned(data, user)
                   /\ IF pc = "make_post"
                      THEN AfterMakePost(data) /\ posts' = posts
                      ELSE IF pc = "add_like" THEN AfterAddLike
                      ELSE AfterCall
           /\ likes' = IF pc = "remove_like" /\ served
                        THEN destroyed.rows ELSE likes
    /\ UNCHANGED <<users, accounts, nextToken, rejected, signup, drawn>>
    /\ UNCHANGED <<postTable, deleted, request, answer>>

\* the first call of _request_wrapper, line 97
Request ==
    /\ pc \in Wrapped
    /\ phase = "first"
    /\ Send("first")

\* the retried call of _request_wrapper, line 100
Retry ==
    /\ pc \in Wrapped
    /\ phase = "retry"
    /\ Send("retry")

\* refresh_token, lines 193-197, called at line 99
RefreshToken ==
    /\ pc \in Wrapped
    /\ phase = "refresh"
    /\ \E fault \in BOOLEAN, expire \in BOOLEAN :
        LET user == users[cur]
            exp == IF expire THEN rejected \cup {user.refresh} ELSE rejected
            response == IF fault THEN ErrorPage
                        ELSE RefreshResponse(exp, user.refresh, nextToken)
        IN /\ expire => ~fault /\ user.refresh \notin rejected
           /\ rejected' = exp
           /\ nextToken' = IF response.status = 200
                           THEN nextToken + 1 ELSE nextToken
           /\ calls' = Append(calls, [op |-> "refresh", access |-> user.access,
                                       response |-> response])
           /\ IF JsonContent(response)
              THEN /\ users' = [users EXCEPT
                                  ![cur] = update(user, response.data.fields)]
                   /\ phase' = "retry"
                   /\ UNCHANGED <<pc, error, outcome>>
              ELSE /\ Abort("JSONDecodeError")
                   /\ outcome' = Raised(user)
                   /\ phase' = "first"
                   /\ users' = users
    /\ UNCHANGED <<post_ids, cur, postsLeft, max_likes, posts, accounts,
                   nextPostId, expired, before, signup, drawn, likesIssued>>
    /\ UNCHANGED tableVars

\* Bot.start line 281: the sample of post ids for users[cur]
Sample ==
    /\ pc = "sample"
    /\ \E sample \in Samples(post_ids, max_likes) :
        /\ posts' = sample
        /\ likesIssued' = <<>>
        /\ IF sample # <<>>
           THEN pc' = "add_like" /\ cur' = cur
           ELSE NextLiker
    /\ UNCHANGED <<phase, users, post_ids, postsLeft, max_likes, error,
                   accounts, nextToken, nextPostId, expired, rejected, calls,
                   before, outcome, signup, drawn>>
    /\ UNCHANGED tableVars

Next ==
    \/ MakeUser
    \/ AuthorizeUser
    \/ Request
    \/ RefreshToken
    \/ Retry
    \/ Sample

Spec == Init /\ [][Next]_vars

\* ------------------------------------------ posts app: stored likes
\* the latest created_at stored: the clock has reached it
Latest == IF likes = {} THEN TicksPerDay
          ELSE CHOOSE t \in {r.created_at : r \in likes} :
                  \A r \in likes : r.created_at <= t

InitAnalytics ==
    /\ pc = "idle"
    /\ phase = "first"
    /\ users = <<>>
    /\ post_ids = <<>>
    /\ cur = 0
    /\ postsLeft = 0
    /\ max_likes = 0
    /\ posts = <<>>
    /\ error = ""
    /\ accounts = {}
    /\ nextToken = 1
    /\ nextPostId = 1
    /\ expired = {}
    /\ rejected = {}
    /\ calls = <<>>
    /\ before = UserData("", "")
    /\ outcome = NoOutcome
    /\ signup = [username |-> "", password |-> "", status |-> 0]
    /\ drawn = 0
    /\ likesIssued = <<>>
    /\ likes = {}
    /\ postTable = {}
    /\ deleted = NoDelete
    /\ request = NoRequest
    /\ answer = NoAnswer

\* PostCreateListView.post: CreateModelMixin.create saves the validated
\* data; the primary key is the next one
PostCreate ==
    /\ Cardinality(postTable) < MaxPosts
    /\ \E user \in Authors, body \in BodyUsers :
        LET row == [id |-> Cardinality(Entries) + Cardinality(postTable) + 1,
                    user |-> UserField(user, body)]
        IN /\ request' = [view |-> "posts", user |-> user, body |-> body]
           /\ answer' = [status |-> 201, rows |-> <<row>>]
           /\ postTable' = postTable \cup {row}
    /\ deleted' = NoDelete
    /\ UNCHANGED likes
    /\ UNCHANGED clientVars

\* LikeCreateDestroyAPIView.post: CreateModelMixin.create saves the validated
\* data, created_at set by auto_now_add, (user, post) unique
LikeCreate ==
    /\ Cardinality(likes) < MaxRows
    /\ \E user \in Authors, body \in BodyUsers, post \in Entries,
          now \in Instants :
        LET row == [user |-> UserField(user, body), post |-> post,
                    created_at |-> now]
        IN /\ now >= Latest
           /\ request' = [view |-> "likes", user |-> user, body |-> body,
                           post |-> post]
           /\ deleted' = IF /\ deleted.stage = "delete"
                             /\ request.user = user
                             /\ request.post = post
                             /\ row.user = user
                          THEN [deleted EXCEPT !.stage = "post"]
                          ELSE NoDelete
           /\ IF \E r \in likes : r.user = row.user /\ r.post = post
              THEN /\ answer' = [status |-> 400, rows |-> <<>>]
                   /\ likes' = likes
              ELSE /\ answer' = [status |-> 201, rows |-> <<row>>]
                   /\ likes' = likes \cup {row}
    /\ UNCHANGED postTable
    /\ UNCHANGED clientVars

\* LikeCreateDestroyAPIView.delete: DELETE likes/<post>
LikeDestroy ==
    /\ \E user \in Authors, post \in Entries :
        LET result == destroy(likes, user, post)
        IN /\ request' = [view |-> "unlike", user |-> user, post |-> post]
           /\ answer' = [status |-> result.status, rows |-> <<>>]
           /\ likes' = result.rows
    /\ deleted' = [stage |-> "delete", rows |-> likes]
    /\ UNCHANGED postTable
    /\ UNCHANGED clientVars

\* LikesPerDayList: GET analytics/ with the two query parameters
LikesPerDayList ==
    /\ \E date_from \in QueryValues, date_to \in QueryValues :
        LET params == [date_from |-> date_from, date_to |-> date_to]
        IN /\ request' = [view |-> "analytics", params |-> params]
           /\ answer' = get_queryset(likes, params)
    /\ deleted' = NoDelete
    /\ UNCHANGED <<likes, postTable>>
    /\ UNCHANGED clientVars

NextAnalytics ==
    \/ LikeCreate
    \/ LikesPerDayList

SpecAnalytics == InitAnalytics /\ [][NextAnalytics]_vars

\* ------------------------------------------ posts app: likes and posts
NextService ==
    \/ PostCreate
    \/ LikeCreate
    \/ LikeDestroy

SpecService == InitAnalytics /\ [][NextService]_vars

\* ------------------------------------- Bot methods called on their own
\* a credential after make_user and authorize_user on a fresh service
LoggedIn ==
    LET username == PriorAccount.username
        password == PriorAccount.password
        made == update(UserData(username, password),
                       SignupResponse({}, username, password).data.fields)
    IN update(made, LoginResponse({PriorAccount}, asdict(made), 1).data.fields)

\* the Like tables the service may hold when the methods are called
Tables ==
    { t \in SUBSET { [user |-> u, post |-> p, created_at |-> Midnight(d)] :
                        u \in Authors, p \in Entries, d \in Days } :
        /\ Cardinality(t) <= MaxRows
        /\ \A r, o \in t : (r.user = o.user /\ r.post = o.post) => r = o }

InitCalls ==
    /\ pc = "idle"
    /\ phase = "first"
    /\ users = <<LoggedIn>>
    /\ post_ids = <<>>
    /\ cur = 1
    /\ postsLeft = 0
    /\ max_likes = 0
    /\ posts = <<>>
    /\ error = ""
    /\ accounts = {PriorAccount}
    /\ nextToken = 3
    /\ nextPostId = 1
    /\ expired = {}
    /\ rejected = {}
    /\ calls = <<>>
    /\ before = UserData("", "")
    /\ outcome = NoOutcome
    /\ signup = [username |-> "", password |-> "", status |-> 0]
    /\ drawn = 0
    /\ likesIssued = <<>>
    /\ likes \in Tables
    /\ postTable = {}
    /\ deleted = NoDelete
    /\ request = NoRequest
    /\ answer = NoAnswer

\* get_likes_analytics, lines 251-262, up to the call of _request_wrapper
GetLikesAnalytics ==
    /\ pc = "idle"
    /\ \E date_from \in QueryValues, date_to \in QueryValues :
        request' = [view |-> "analytics",
                    params |-> [date_from |-> Param(date_from),
                                date_to |-> Param(date_to)]]
    /\ pc' = "get_likes_analytics"
    /\ calls' = <<>>
    /\ outcome' = NoOutcome
    /\ UNCHANGED <<phase, users, post_ids, cur, postsLeft, max_likes, posts,
                   error, accounts, nextToken, nextPostId, expired, rejected,
                   before, signup, drawn, likesIssued, likes, postTable,
                   deleted, answer>>

\* remove_like, lines 234-238, up to the call of _request_wrapper
RemoveLike ==
    /\ pc = "idle"
    /\ \E post \in Entries :
        request' = [view |-> "unlike", user |-> users[cur].id, post |-> post]
    /\ pc' = "remove_like"
    /\ calls' = <<>>
    /\ outcome' = NoOutcome
    /\ UNCHANGED <<phase, users, post_ids, cur, postsLeft, max_likes, posts,
                   error, accounts, nextToken, nextPostId, expired, rejected,
                   before, signup, drawn, likesIssued, likes, postTable,
                   deleted, answer>>

NextCalls ==
    \/ RemoveLike
    \/ GetLikesAnalytics
    \/ Request
    \/ RefreshToken
    \/ Retry

SpecCalls == InitCalls /\ [][NextCalls]_vars

\* ================================================================ claims
\* the token-invalid marker in a JSON answer
Marker(r) ==
    /\ r.ctype = JSON
    /\ "code" \in DOMAIN r.data.fields
    /\ r.data.fields["code"] = "token_not_valid"

\* an answer of the refresh endpoint that carries a new access token
Refreshed(r) == r.ctype = JSON /\ "access" \in DOMAIN r.data.fields

Requests == {i \in 1..Len(calls) : calls[i].op = "request"}
Refreshes == {i \in 1..Len(calls) : calls[i].op = "refresh"}

Minimum(a, b) == IF a < b THEN a ELSE b

Distinct(seq) == \A i, j \in 1..Len(seq) : i # j => seq[i] # seq[j]

\* C1: a logical request issues at most two HTTP calls; the second is issued
\* only after a token-invalid first answer, with exactly one refresh call
\* between the two, and carries the access token as it stands after that
\* refresh.
C1_AtMostTwoCalls ==
    /\ Cardinality(Requests) <= 2
    /\ Cardinality(Refreshes) <= 1
    /\ calls # <<>> => calls[1].op = "request"
    /\ Refreshes # {} => Refreshes = {2} /\ Marker(calls[1].response)
    /\ Cardinality(Requests) = 2 =>
          /\ Requests = {1, 3}
          /\ Refreshes = {2}
          /\ Marker(calls[1].response)
          /\ calls[3].access =
                IF Refreshed(calls[2].response)
                THEN calls[2].response.data.fields["access"]
                ELSE calls[1].access

C1_Witness ==
    /\ Len(calls) = 3
    /\ Refreshed(calls[2].response)
    /\ calls[3].access # calls[1].access
    /\ outcome.status = "returned"

\* C2: when both the original and the retried call are answered with the
\* token-invalid marker, execute fails: it does not return the second
\* token-invalid body as a result.
C2_DoubleInvalidFails ==
    (/\ Len(calls) = 3
     /\ Marker(calls[1].response)
     /\ Marker(calls[3].response)) => outcome.status = "raised"

\* C3: token-invalid on the first call and a valid JSON payload on the
\* retried call: execute returns exactly the retried payload and the
\* credential's access token differs from its value before execute.
C3_RetriedPayloadReturned ==
    (/\ Len(calls) = 3
     /\ Marker(calls[1].response)
     /\ calls[3].response.ctype = JSON
     /\ ~Marker(calls[3].response))
    => /\ outcome.status = "returned"
       /\ outcome.data = calls[3].response.data
       /\ outcome.user.access # before.access

C3_Witness ==
    /\ Len(calls) = 3
    /\ Marker(calls[1].response)
    /\ calls[3].response.status = 201
    /\ outcome.status = "returned"
    /\ outcome.data = calls[3].response.data

\* C4: a rejected refresh (no new access token in the answer) is terminal:
\* refresh fails, the original request is not re-sent and the credential is
\* not changed by the fields of the rejection.
C4_RejectedRefreshTerminal ==
    \A i \in Refreshes :
        (calls[i].response.ctype = JSON /\ ~Refreshed(calls[i].response))
        => /\ i = Len(calls)
           /\ pc = "aborted"
           /\ users[cur] = before

\* C5: a non-JSON answer to the original or the retried call makes execute
\* fail at once, with no refresh and no further call; a non-JSON answer to
\* the original call leaves the credential's tokens unchanged.
C5_NonJsonFailsAtOnce ==
    \A i \in Requests :
        calls[i].response.ctype # JSON
        => /\ i = Len(calls)
           /\ outcome.status = "raised"
           /\ pc = "aborted"
           /\ i = 1 => /\ users[cur].access = before.access
                       /\ users[cur].refresh = before.refresh

C5_Witness ==
    /\ Len(calls) = 3
    /\ calls[3].response.ctype # JSON
    /\ pc = "aborted"

\* C6: every bearer-authenticated request is sent with a non-empty access
\* token; a rejected login is followed by no authenticated request.
C6_BearerTokenNonEmpty ==
    \A i \in Requests : calls[i].access # EmptyToken

\* C7: a signup answered with a non-success status and a JSON error body
\* aborts the run at once: the credential keeps its generated username and
\* password, is not added to the user list, and nothing is sent afterwards.
C7_RejectedSignupAborts ==
    signup.status = 400
    => /\ pc = "aborted"
       /\ error # "KeyError"
       /\ \A i \in 1..Len(users) :
             /\ users[i].username # UsernameTaken
             /\ users[i].id # NoId
             /\ "detail" \notin DOMAIN users[i]

ValidFrom == request.params.date_from.text = "date"
ValidTo == request.params.date_to.text = "date"

\* the likes inside the requested range: created no earlier than the start
\* of date_from and no later than the start of date_to
InRange ==
    {r \in likes :
        /\ ValidFrom =>
              r.created_at >= request.params.date_from.day * TicksPerDay
        /\ ValidTo =>
              r.created_at <= request.params.date_to.day * TicksPerDay}

DayOf(r) == r.created_at \div TicksPerDay

NoBounds ==
    /\ request.view = "analytics"
    /\ request.params.date_from.text = "missing"
    /\ request.params.date_to.text = "missing"

\* C11: an analytics query with neither date_from nor date_to never gives
\* the caller a result: every answer of the view to it is the 400 parameter
\* error, and get_likes_analytics does not return that error body as its
\* result
C11_NoBoundsNoResult ==
    NoBounds =>
        /\ \A i \in 1..Len(calls) :
              (calls[i].op = "request"
                  /\ calls[i].response.status \notin {401, 500})
              => /\ calls[i].response.status = 400
                 /\ Get(calls[i].response.data, "detail", IncorrectParameters)
        /\ ~(/\ outcome.status = "returned"
              /\ IsDict(outcome.data)
              /\ Get(outcome.data, "detail", IncorrectParameters))

\* the (user, post) pairs of a Like table
Pairs(rows) == {<<r.user, r.post>> : r \in rows}

\* the like of the requester on the post of the request, before the DELETE
Own == {r \in deleted.rows : r.user = request.user /\ r.post = request.post}

\* C12: a DELETE likes/<post> by a user who likes that post removes that
\* user's like on that post and no other like; a POST of a like for the same
\* post by the same user right after it creates exactly one like, and the
\* (user, post) pairs are those before the DELETE
C12_UnlikeThenLike ==
    /\ (deleted.stage = "delete" /\ Own # {})
        => /\ request.view = "unlike"
           /\ answer.status = 204
           /\ Cardinality(Own) = 1
           /\ likes = deleted.rows \ Own
    /\ (deleted.stage = "post" /\ Own # {})
        => /\ request.view = "likes"
           /\ answer.status = 201
           /\ Cardinality(likes) = Cardinality(deleted.rows)
           /\ deleted.rows \ Own \subseteq likes
           /\ Pairs(likes) = Pairs(deleted.rows)

\* the like was removed and made again while another user's like on the same
\* post stayed
C12_Witness ==
    /\ deleted.stage = "post"
    /\ Own # {}
    /\ answer.status = 201
    /\ \E r \in likes : r.user # request.user /\ r.post = request.post

\* C13: when the DELETE of a remove_like call for a post the user likes is
\* answered 204 No Content, without a JSON content type, remove_like
\* completes without raising and without a refresh or a second call
C13_NoContentCompletes ==
    (/\ request.view = "unlike"
     /\ calls # <<>>
     /\ calls[1].op = "request"
     /\ calls[1].response.status = 204)
    => /\ calls[1].response.ctype # JSON
       /\ Len(calls) = 1
       /\ pc = "idle"
       /\ error = ""
       /\ outcome.status = "returned"

\* C14: every Post and every Like created through the API is stored with
\* the authenticated requester as its user, whatever the request body holds
C14_RequesterRecorded ==
    (request.view \in {"posts", "likes"} /\ answer.status = 201)
    => /\ Len(answer.rows) = 1
       /\ answer.rows[1] \in (IF request.view = "posts" THEN postTable
                               ELSE likes)
       /\ answer.rows[1].user = request.user

====
